---- MODULE Spec2Model ----
(***************************************************************************)
(* The render-visualization overlay engine of react-scan's WebGL outline   *)
(* renderer (src/core/web/outline.ts, the variant of lines 1279-1983, and  *)
(* the earlier variant kept in src/unnamed/part_000).                      *)
(*                                                                         *)
(* State: the pending queue and the registry of ReactScanInternals, the    *)
(* module-level maps (componentUpdateMap, rectCache, textureCache),        *)
(* animationFrameId, the frame callbacks pending with the host, the paint  *)
(* promises every flush awaits, and the live layout of the page.           *)
(***************************************************************************)
EXTENDS Integers, Sequences, FiniteSets, TLC

\* ------------------------------------------------------------------ bounds
MaxEvents == 2          \* render events the instrumentation reports in a run
MaxRefreshEvents == 3   \* the same, on the page that only re-renders
MaxBurstEvents == 5     \* the same, on the page that stands still
MaxMergeLen == 3        \* longest list handed to mergeOutlines on its own
MaxRenderLen == 2       \* longest render list of one region in such a list
MaxColorRenders == 12   \* largest maxRenders option tried besides the default
\* paintOutlineGL fixes the fade windows at 60 frames (unstable) and 30 frames
\* (stable); the model keeps their order and scales their lengths, so that a
\* whole fade fits the explored runs.
UnstableFrames == 3
StableFrames == 2
Quantum == 64           \* step by which performance.now() is seen to advance

\* ------------------------------------------------------- program constants
TTL == 128              \* getRect: cached.timestamp > performance.now() - 128
ViewportMargin == 30    \* getRect: rect.top >= -30, bottom <= innerHeight + 30
DefaultMaxRenders == 100 \* options.maxRenders ?? 100
START_COLOR == [r |-> 115, g |-> 97, b |-> 230]
END_COLOR == [r |-> 185, g |-> 49, b |-> 115]

\* ------------------------------------------------------------ environment
Elems == {"e1", "e2"}               \* the DOM nodes of the page
innerWidth == 1024
innerHeight == 768
scrollX == 0                        \* window.scrollX, window.scrollY
scrollY == 40

MkRect(t, l, w, h) == [top |-> t, left |-> l, width |-> w, height |-> h]
R1 == MkRect(10, 10, 100, 50)
R2 == MkRect(80, 10, 100, 50)
bottom(rect) == rect.top + rect.height
right(rect) == rect.left + rect.width

\* What the page can make of an element: its computed style and its box.
Shown(rect) == [display |-> "block", visibility |-> "visible", opacity |-> "1", ignore |-> FALSE,
                rect |-> rect]
DisplayNone == [display |-> "none", visibility |-> "visible", opacity |-> "1", ignore |-> FALSE,
                rect |-> MkRect(0, 0, 0, 0)]
LayoutChoices == {Shown(R1), Shown(R2), DisplayNone}
MovingElems == {"e2"}               \* the nodes the page restyles or moves

GpuStatuses == {"ok", "validate", "link", "attrib"}

NoProbe == [input |-> <<>>, output |-> <<>>, done |-> FALSE]

\* ------------------------------------------------------------------- maps
\* A JavaScript Map is a function whose domain is the set of its keys.
EmptyMap == [k \in {} |-> 0]
MapHas(m, k) == k \in DOMAIN m
MapSet_only(m, k, v) == [x \in {k} |-> v]
MapSet(m, k, v) == [x \in (DOMAIN m) \cup {k} |-> IF x = k THEN v ELSE m[x]]

VARIABLES
    dom,                \* [Elems -> layout]: live style and box of each node
    scheduledOutlines,  \* ReactScanInternals.scheduledOutlines (pending queue)
    activeOutlines,     \* ReactScanInternals.activeOutlines (registry)
    componentUpdateMap, \* GeometryKey -> number of paints since the last idle
    rectCache,          \* node -> [rect, age]; age = performance.now() - timestamp
    textureCache,       \* label text -> [useCount]
    glTextures,         \* label text -> number of live GPU textures made for it
    animationFrameId,   \* 0 (null) or the handle of the requested callback
    rafPending,         \* number of fadeOutOutlineGL callbacks pending with the host
    flushes,            \* per started flush: the paint promises it awaits
    hooks,              \* calls made so far: onPaintStart, resolve/onPaintFinish
    lastDraw,           \* what the last tick put on the canvas
    probe,              \* input and result of a function called on its own
    nextId              \* identity of the next render event object

vars == <<dom, scheduledOutlines, activeOutlines, componentUpdateMap, rectCache,
          textureCache, glTextures, animationFrameId, rafPending, flushes, hooks,
          lastDraw, probe, nextId>>

\* ------------------------------------------------------------ pure helpers
\* `${rect.top}-${rect.left}-${rect.width}-${rect.height}`: the four numbers
\* in this order; the template is injective on the numbers a DOMRect holds.
getOutlineKey(outline) ==
    <<outline.rect.top, outline.rect.left, outline.rect.width, outline.rect.height>>

\* ./utils isOutlineUnstable: a region is unstable when one of its render
\* events reports an unstable change.
isOutlineUnstable(outline) ==
    \E i \in 1..Len(outline.renders) : outline.renders[i].unstable

RECURSIVE SumCounts(_)
SumCounts(renders) ==
    IF renders = <<>> THEN 0 ELSE Head(renders).count + SumCounts(Tail(renders))

SelectName(renders, n) == SelectSeq(renders, LAMBDA r : r.name = n)

\* ../utils getLabelText: the label names every component of the render list
\* with its summed render count.
getLabelText(renders) ==
    { <<renders[i].name, SumCounts(SelectName(renders, renders[i].name))>> :
        i \in 1..Len(renders) }

Lerp_unclamped(a, b, updateCount, maxRenders) ==
    (2 * (a * maxRenders + updateCount * (b - a)) + maxRenders) \div (2 * maxRenders)

\* Math.round(a + t * (b - a)) for t = Math.min(updateCount / maxRenders, 1).
Lerp(a, b, updateCount, maxRenders) ==
    IF updateCount >= maxRenders THEN b
    ELSE (2 * (a * maxRenders + updateCount * (b - a)) + maxRenders) \div (2 * maxRenders)

colorOf(updateCount, maxRenders) ==
    [r |-> Lerp(START_COLOR.r, END_COLOR.r, updateCount, maxRenders),
     g |-> Lerp(START_COLOR.g, END_COLOR.g, updateCount, maxRenders),
     b |-> Lerp(START_COLOR.b, END_COLOR.b, updateCount, maxRenders)]

\* alpha is kept in units of 1 / AlphaUnit, so that
\* alphaScalar * (1 - frame / totalFrames) is an integer for both fade windows.
AlphaUnit == 5 * UnstableFrames * StableFrames
alphaScalar_flat(unstable) == AlphaUnit
alphaScalar(unstable) == IF unstable THEN AlphaUnit ELSE AlphaUnit \div 5
fadeAlpha(unstable, frame, totalFrames) ==
    (alphaScalar(unstable) * (totalFrames - frame)) \div totalFrames


\* --------------------------------------------------- geometry snapshot cache
\* getRect(domNode): the rect it returns (<<>> for null, <<rect>> otherwise)
\* and the rectCache it leaves behind.
getRect_unstyled(cache, d, domNode) ==
    IF MapHas(cache, domNode) /\ cache[domNode].age < TTL
    THEN [rect |-> <<cache[domNode].rect>>, cache |-> cache]
    ELSE LET rect == d[domNode].rect
             isVisible == /\ rect.top >= -ViewportMargin
                          /\ rect.left >= 0
                          /\ bottom(rect) <= innerHeight + ViewportMargin
                          /\ right(rect) <= innerWidth + ViewportMargin
         IN  IF ~isVisible \/ rect.width = 0 \/ rect.height = 0
             THEN [rect |-> <<>>, cache |-> cache]
             ELSE [rect |-> <<rect>>,
                   cache |-> MapSet(cache, domNode, [rect |-> rect, age |-> 0])]

getRect_forever(cache, d, domNode) ==
    IF MapHas(cache, domNode)
    THEN [rect |-> <<cache[domNode].rect>>, cache |-> cache]
    ELSE LET style == d[domNode]
             rect == style.rect
         IN  IF \/ style.display = "none" \/ style.visibility = "hidden"
                \/ style.opacity = "0" \/ rect.width = 0 \/ rect.height = 0
                \/ rect.top < -ViewportMargin \/ rect.left < 0
                \/ bottom(rect) > innerHeight + ViewportMargin
                \/ right(rect) > innerWidth + ViewportMargin
             THEN [rect |-> <<>>, cache |-> cache]
             ELSE [rect |-> <<rect>>,
                   cache |-> MapSet(cache, domNode, [rect |-> rect, age |-> 0])]

getRect(cache, d, domNode) ==
    IF MapHas(cache, domNode) /\ cache[domNode].age < TTL
    THEN [rect |-> <<cache[domNode].rect>>, cache |-> cache]
    ELSE LET style == d[domNode]
             rect == style.rect
             isVisible == /\ rect.top >= -ViewportMargin
                          /\ rect.left >= 0
                          /\ bottom(rect) <= innerHeight + ViewportMargin
                          /\ right(rect) <= innerWidth + ViewportMargin
         IN  IF \/ style.display = "none"
                \/ style.visibility = "hidden"
                \/ style.opacity = "0"
             THEN [rect |-> <<>>, cache |-> cache]
             ELSE IF ~isVisible \/ rect.width = 0 \/ rect.height = 0
             THEN [rect |-> <<>>, cache |-> cache]
             ELSE [rect |-> <<rect>>,
                   cache |-> MapSet(cache, domNode, [rect |-> rect, age |-> 0])]

\* ------------------------------------------------------ render-event resolver
\* The node and its ancestors, as parentElement walks them.
parentElement(domNode) == IF domNode = "e2" THEN <<"e1">> ELSE <<>>

shouldIgnore_self(d, currentDomNode) == d[currentDomNode].ignore

RECURSIVE shouldIgnore(_, _)
shouldIgnore(d, currentDomNode) ==
    IF d[currentDomNode].ignore THEN TRUE
    ELSE IF parentElement(currentDomNode) = <<>> THEN FALSE
    ELSE shouldIgnore(d, parentElement(currentDomNode)[1])

\* getOutline(fiber, render) for a fiber whose nearest host node is domNode:
\* <<>> for null, <<outline>> otherwise, and the rectCache after the call.
getOutline(cache, d, domNode, render) ==
    IF shouldIgnore(d, domNode) THEN [outline |-> <<>>, cache |-> cache]
    ELSE LET got == getRect(cache, d, domNode)
         IN  IF got.rect = <<>> THEN [outline |-> <<>>, cache |-> got.cache]
             ELSE [outline |-> <<[rect |-> got.rect[1], domNode |-> domNode,
                                  renders |-> <<render>>]>>,
                   cache |-> got.cache]

\* ------------------------------------------------------ pending-region merger
\* The Map of mergeOutlines keeps insertion order: acc is its values().
RECURSIVE mergeInto(_, _)
mergeInto(acc, outlines) ==
    IF outlines = <<>> THEN acc
    ELSE LET outline == Head(outlines)
             key == getOutlineKey(outline)
             at == {i \in 1..Len(acc) : getOutlineKey(acc[i]) = key}
         IN  IF at = {}
             THEN mergeInto(Append(acc, outline), Tail(outlines))
             ELSE LET i == CHOOSE i \in at : TRUE
                  IN  mergeInto([acc EXCEPT ![i].renders = @ \o outline.renders],
                                Tail(outlines))

mergeOutlines_unmerged(outlines) == outlines

mergeOutlines(outlines) == mergeInto(<<>>, outlines)

\* The identities of the render events held by a list of pending outlines.
RenderIds(outlines) ==
    UNION { {outlines[i].renders[j].id : j \in 1..Len(outlines[i].renders)} :
            i \in 1..Len(outlines) }

\* requestAnimationFrame(() => fadeOutOutlineGL(ctx)): the host holds one
\* more pending callback; the handle it returns is never 0.
requestAnimationFrame_twice(pending) == pending + 2

requestAnimationFrame(pending) == pending + 1

\* ----------------------------------------------------- active-region registry
\* The part of the state one paintOutlineGL call reads and writes.
PaintState == [activeOutlines |-> activeOutlines,
               componentUpdateMap |-> componentUpdateMap,
               animationFrameId |-> animationFrameId,
               rafPending |-> rafPending,
               hooks |-> hooks,
               promises |-> {}]

findActive_any(actives, key) == IF actives = <<>> THEN 0 ELSE 1

\* activeOutlines.find(a => getOutlineKey(a.outline) === key): the index of the
\* first match, 0 when there is none.
findActive(actives, key) ==
    LET at == {i \in 1..Len(actives) : getOutlineKey(actives[i].outline) = key}
    IN  IF at = {} THEN 0 ELSE CHOOSE i \in at : \A j \in at : i <= j

totalFramesFor_short(unstable) == StableFrames

\* const totalFrames = unstable ? 60 : 30, in the model's scale.
totalFramesFor(unstable) == IF unstable THEN UnstableFrames ELSE StableFrames

\* The promise of a paintOutlineGL call is named after the first render event
\* of the outline it paints; stored tells whether its resolve function was
\* kept in the registry entry.
paintOutlineGL(st, outline) ==
    LET unstable == isOutlineUnstable(outline)
        totalFrames == totalFramesFor(unstable)
        alpha == AlphaUnit
        pid == Head(outline.renders).id
        key == getOutlineKey(outline)
        existing == findActive(st.activeOutlines, key)
        currentCount == IF MapHas(st.componentUpdateMap, key)
                        THEN st.componentUpdateMap[key] ELSE 0
        updateMap == MapSet(st.componentUpdateMap, key, currentCount + 1)
        color == colorOf(updateMap[key], DefaultMaxRenders)
        actives ==
            IF existing # 0
            THEN [st.activeOutlines EXCEPT
                    ![existing].outline.renders = @ \o outline.renders,
                    ![existing].outline.rect = outline.rect,
                    ![existing].frame = 0,
                    ![existing].totalFrames = totalFrames,
                    ![existing].alpha = alpha,
                    ![existing].color = color]
            ELSE Append(st.activeOutlines,
                        [outline |-> outline, alpha |-> alpha, frame |-> 0,
                         totalFrames |-> totalFrames, resolve |-> pid,
                         text |-> getLabelText(outline.renders), color |-> color])
        request == st.animationFrameId = 0
    IN  [activeOutlines |-> actives,
         componentUpdateMap |-> updateMap,
         animationFrameId |-> IF request THEN 1 ELSE st.animationFrameId,
         rafPending |-> IF request THEN requestAnimationFrame(st.rafPending)
                        ELSE st.rafPending,
         hooks |-> [st.hooks EXCEPT !.onPaintStart = Append(@, pid)],
         promises |-> st.promises \cup {[id |-> pid, key |-> key,
                                         stored |-> existing = 0]}]

\* mergedOutlines.map(async outline => ...): every callback runs up to its
\* await, in order, before Promise.all is awaited.
paintAll_first(st, outlines, previousOutlines) ==
    IF outlines = <<>> THEN st ELSE paintOutlineGL(st, Head(outlines))

RECURSIVE paintAll(_, _, _)
paintAll(st, outlines, previousOutlines) ==
    IF outlines = <<>> THEN st
    ELSE paintAll(IF getOutlineKey(Head(outlines)) \notin previousOutlines
                  THEN paintOutlineGL(st, Head(outlines))
                  ELSE st,
                  Tail(outlines), previousOutlines)

\* ---------------------------------------------------------------- operations
\* The instrumentation reports a render of a component whose nearest host
\* node is domNode: getOutline, then a push onto the pending queue.
onRenderEvent(domNode, unstable) ==
    /\ LET render == [id |-> nextId, name |-> "A", count |-> 1, unstable |-> unstable]
           got == getOutline(rectCache, dom, domNode, render)
       IN  /\ rectCache' = got.cache
           /\ scheduledOutlines' = scheduledOutlines \o got.outline
    /\ nextId' = nextId + 1
    /\ UNCHANGED <<dom, activeOutlines, componentUpdateMap, textureCache, glTextures,
                   animationFrameId, rafPending, flushes, hooks, lastDraw, probe>>

flushOutlinesGL_unswapped ==
    /\ scheduledOutlines # <<>>
    /\ LET st == paintAll(PaintState, mergeOutlines(scheduledOutlines), {})
       IN  /\ scheduledOutlines' = scheduledOutlines
           /\ activeOutlines' = st.activeOutlines
           /\ componentUpdateMap' = st.componentUpdateMap
           /\ animationFrameId' = st.animationFrameId
           /\ rafPending' = st.rafPending
           /\ hooks' = st.hooks
           /\ flushes' = Append(flushes, st.promises)
    /\ UNCHANGED <<dom, rectCache, textureCache, glTextures, lastDraw, probe, nextId>>

\* flushOutlinesGL(ctx) called by the producer (previousOutlines = new Map()),
\* up to the await of Promise.all.
flushOutlinesGL ==
    /\ scheduledOutlines # <<>>
    /\ LET firstOutlines == scheduledOutlines
           secondOutlines == <<>>
           mergedOutlines == mergeOutlines(firstOutlines \o secondOutlines)
           st == paintAll(PaintState, mergedOutlines, {})
       IN  /\ scheduledOutlines' = <<>>
           /\ activeOutlines' = st.activeOutlines
           /\ componentUpdateMap' = st.componentUpdateMap
           /\ animationFrameId' = st.animationFrameId
           /\ rafPending' = st.rafPending
           /\ hooks' = st.hooks
           /\ flushes' = Append(flushes, st.promises)
    /\ UNCHANGED <<dom, rectCache, textureCache, glTextures, lastDraw, probe, nextId>>

\* ---------------------------------------------------------- label texture cache
\* createTextTexture(gl, text): the textureCache and the live GPU textures
\* after the call.
createTextTexture_uncounted(cache, gl, text) ==
    [textureCache |-> IF MapHas(cache, text) THEN cache
                      ELSE MapSet(cache, text, [useCount |-> 0]),
     glTextures |-> IF MapHas(cache, text) THEN gl
                    ELSE MapSet(gl, text, (IF MapHas(gl, text) THEN gl[text] ELSE 0) + 1)]

createTextTexture_fresh(cache, gl, text) ==
    [textureCache |-> MapSet(cache, text, [useCount |-> 1]),
     glTextures |-> MapSet(gl, text, (IF MapHas(gl, text) THEN gl[text] ELSE 0) + 1)]

createTextTexture(cache, gl, text) ==
    IF MapHas(cache, text)
    THEN [textureCache |-> [cache EXCEPT ![text].useCount = @ + 1], glTextures |-> gl]
    ELSE [textureCache |-> MapSet(cache, text, [useCount |-> 1]),
          glTextures |-> MapSet(gl, text, (IF MapHas(gl, text) THEN gl[text] ELSE 0) + 1)]

\* The idle branch's textureCache.forEach: an entry used more than once is
\* only decremented, any other has its texture deleted.
idleTextures_leak(cache, gl) == gl

idleTextures_twice(cache, gl) ==
    [text \in DOMAIN gl |-> IF MapHas(cache, text) THEN gl[text] - 2 ELSE gl[text]]

idleTextures(cache, gl) ==
    [text \in DOMAIN gl |->
        IF MapHas(cache, text) /\ cache[text].useCount <= 1 THEN gl[text] - 1 ELSE gl[text]]

\* ------------------------------------------------------------- GPU batch renderer
\* assembleOutlinesDrawArraysInstanced: activeOutlines.forEach from index i on.
\* withTextures is FALSE for the variant of part_000, which has no label pass.
RECURSIVE assembleFrom(_, _, _)
assembleFrom(acc, i, withTextures) ==
    IF i > Len(acc.activeOutlines) THEN acc
    ELSE LET activeOutline == acc.activeOutlines[i]
             outline == activeOutline.outline
             rect == outline.rect
             unstable == isOutlineUnstable(outline)
             tex == IF withTextures /\ ~MapHas(acc.textureCache, activeOutline.text) /\ unstable
                    THEN createTextTexture(acc.textureCache, acc.glTextures, activeOutline.text)
                    ELSE [textureCache |-> acc.textureCache, glTextures |-> acc.glTextures]
             got == getRect(acc.rectCache, dom, outline.domNode)
             newRect == IF got.rect # <<>> THEN got.rect[1] ELSE outline.rect
             alpha == fadeAlpha(unstable, activeOutline.frame, activeOutline.totalFrames)
         IN  assembleFrom(
                [activeOutlines |-> [acc.activeOutlines EXCEPT
                                        ![i].outline.rect = newRect,
                                        ![i].alpha = alpha,
                                        ![i].frame = @ + 1],
                 rectCache |-> got.cache,
                 textureCache |-> tex.textureCache,
                 glTextures |-> tex.glTextures,
                 rectData |-> Append(acc.rectData,
                                     <<rect.left + scrollX, rect.top + scrollY,
                                       rect.width, rect.height>>),
                 colorData |-> Append(acc.colorData,
                                      IF unstable
                                      THEN <<activeOutline.color.r, activeOutline.color.g,
                                             activeOutline.color.b, alpha>>
                                      ELSE <<255, 25, 115, alpha>>)],
                i + 1, withTextures)

assembleOutlinesDrawArraysInstanced(withTextures) ==
    assembleFrom([activeOutlines |-> activeOutlines, rectCache |-> rectCache,
                  textureCache |-> textureCache, glTextures |-> glTextures,
                  rectData |-> <<>>, colorData |-> <<>>], 1, withTextures)

drawOutlines_unchecked(status) ==
    LET bufferData == assembleOutlinesDrawArraysInstanced(TRUE)
    IN  [ok |-> TRUE, activeOutlines |-> bufferData.activeOutlines,
         rectCache |-> bufferData.rectCache,
         textureCache |-> bufferData.textureCache,
         glTextures |-> bufferData.glTextures,
         rectData |-> bufferData.rectData, colorData |-> bufferData.colorData,
         instances |-> Len(bufferData.activeOutlines)]

\* drawOutlines(ctx, ...) under the GPU's answer to validateProgram,
\* LINK_STATUS and getAttribLocation; ok is its return value.
drawOutlines(status) ==
    IF status # "ok"
    THEN [ok |-> FALSE, activeOutlines |-> activeOutlines, rectCache |-> rectCache,
          textureCache |-> textureCache, glTextures |-> glTextures,
          rectData |-> <<>>, colorData |-> <<>>, instances |-> 0]
    ELSE LET bufferData == assembleOutlinesDrawArraysInstanced(TRUE)
         IN  [ok |-> TRUE, activeOutlines |-> bufferData.activeOutlines,
              rectCache |-> bufferData.rectCache,
              textureCache |-> bufferData.textureCache,
              glTextures |-> bufferData.glTextures,
              rectData |-> bufferData.rectData, colorData |-> bufferData.colorData,
              instances |-> Len(bufferData.activeOutlines)]

\* drawText: one label quad per registry entry whose text has a cached texture.
drawText(actives, cache) ==
    LET labelled == SelectSeq(actives, LAMBDA a : MapHas(cache, a.text))
    IN  [i \in 1..Len(labelled) |-> labelled[i].text]

cleanUp_late(actives) == SelectSeq(actives, LAMBDA a : ~(a.frame > a.totalFrames + 1))

cleanUp_early(actives) == SelectSeq(actives, LAMBDA a : ~(a.frame >= a.totalFrames))

\* "Clean up expired outlines"
cleanUp(actives) == SelectSeq(actives, LAMBDA a : ~(a.frame > a.totalFrames))

\* ------------------------------------------------------------ animation scheduler
\* fadeOutOutlineGL(ctx), the host firing one pending frame callback
\* (outline.ts, lines 1611-1689).
fadeOutOutlineGL(status) ==
    /\ rafPending > 0
    /\ IF Len(activeOutlines) = 0
       THEN /\ status = "ok"
            /\ animationFrameId' = 0
            /\ rafPending' = rafPending - 1
            /\ componentUpdateMap' = EmptyMap
            /\ rectCache' = EmptyMap
            /\ glTextures' = idleTextures(textureCache, glTextures)
            /\ textureCache' = EmptyMap
            /\ UNCHANGED <<activeOutlines, lastDraw>>
       ELSE LET drawn == drawOutlines(status)
            IN  /\ activeOutlines' = cleanUp(drawn.activeOutlines)
                /\ rectCache' = drawn.rectCache
                /\ textureCache' = drawn.textureCache
                /\ glTextures' = drawn.glTextures
                /\ lastDraw' = [ok |-> drawn.ok, instances |-> drawn.instances,
                                rectData |-> drawn.rectData,
                                colorData |-> drawn.colorData,
                                labels |-> drawText(drawn.activeOutlines,
                                                    drawn.textureCache)]
                /\ animationFrameId' = 1
                /\ rafPending' = requestAnimationFrame(rafPending - 1)
                /\ UNCHANGED componentUpdateMap
    /\ UNCHANGED <<dom, scheduledOutlines, flushes, hooks, probe, nextId>>

\* fadeOutOutlineGL(ctx) of the variant in part_000 (lines 304-421): no label
\* pass, and every aborted draw returns before the next frame is requested.
fadeOutOutlineGL_part000(status) ==
    /\ rafPending > 0
    /\ IF Len(activeOutlines) = 0
       THEN /\ status = "ok"
            /\ animationFrameId' = 0
            /\ rafPending' = rafPending - 1
            /\ componentUpdateMap' = EmptyMap
            /\ rectCache' = EmptyMap
            /\ UNCHANGED <<activeOutlines, lastDraw>>
       ELSE IF status # "ok"
       THEN /\ rafPending' = rafPending - 1
            /\ lastDraw' = [ok |-> FALSE, instances |-> 0, rectData |-> <<>>,
                            colorData |-> <<>>, labels |-> <<>>]
            /\ UNCHANGED <<activeOutlines, rectCache, componentUpdateMap,
                           animationFrameId>>
       ELSE LET buffers == assembleOutlinesDrawArraysInstanced(FALSE)
            IN  /\ activeOutlines' = cleanUp(buffers.activeOutlines)
                /\ rectCache' = buffers.rectCache
                /\ lastDraw' = [ok |-> TRUE, instances |-> Len(buffers.activeOutlines),
                                rectData |-> buffers.rectData,
                                colorData |-> buffers.colorData, labels |-> <<>>]
                /\ animationFrameId' = 1
                /\ rafPending' = requestAnimationFrame(rafPending - 1)
                /\ UNCHANGED componentUpdateMap
    /\ UNCHANGED <<dom, scheduledOutlines, textureCache, glTextures, flushes, hooks,
                   probe, nextId>>

\* recalcOutlines, the throttled body run on a scroll or resize notification.
RECURSIVE recalcPending(_, _, _)
recalcPending(outlines, cache, i) ==
    IF i = 0 THEN [outlines |-> outlines, cache |-> cache]
    ELSE LET got == getRect(cache, dom, outlines[i].domNode)
         IN  IF got.rect = <<>>
             THEN recalcPending(SubSeq(outlines, 1, i - 1) \o SubSeq(outlines, i + 1, Len(outlines)),
                                got.cache, i - 1)
             ELSE recalcPending([outlines EXCEPT ![i].rect = got.rect[1]], got.cache, i - 1)

RECURSIVE recalcActive(_, _, _)
recalcActive(actives, cache, i) ==
    IF i = 0 THEN [outlines |-> actives, cache |-> cache]
    ELSE LET got == getRect(cache, dom, actives[i].outline.domNode)
         IN  IF got.rect = <<>>
             THEN recalcActive(SubSeq(actives, 1, i - 1) \o SubSeq(actives, i + 1, Len(actives)),
                               got.cache, i - 1)
             ELSE recalcActive([actives EXCEPT ![i].outline.rect = got.rect[1]],
                               got.cache, i - 1)

recalcOutlines ==
    /\ LET pending == recalcPending(scheduledOutlines, rectCache, Len(scheduledOutlines))
           active == recalcActive(activeOutlines, pending.cache, Len(activeOutlines))
       IN  /\ scheduledOutlines' = pending.outlines
           /\ activeOutlines' = active.outlines
           /\ rectCache' = active.cache
    /\ UNCHANGED <<dom, componentUpdateMap, textureCache, glTextures, animationFrameId,
                   rafPending, flushes, hooks, lastDraw, probe, nextId>>

\* ------------------------------------------------------------------ environment
\* The page restyles or moves a node.
Relayout(domNode, layout) ==
    /\ dom[domNode] # layout
    /\ dom' = [dom EXCEPT ![domNode] = layout]
    /\ UNCHANGED <<scheduledOutlines, activeOutlines, componentUpdateMap, rectCache,
                   textureCache, glTextures, animationFrameId, rafPending, flushes,
                   hooks, lastDraw, probe, nextId>>

\* performance.now() advances by Quantum; an age past the TTL stays stale.
Elapse ==
    /\ \E domNode \in DOMAIN rectCache : rectCache[domNode].age < TTL
    /\ rectCache' = [domNode \in DOMAIN rectCache |->
                        [rectCache[domNode] EXCEPT
                            !.age = IF @ + Quantum > TTL THEN TTL ELSE @ + Quantum]]
    /\ UNCHANGED <<dom, scheduledOutlines, activeOutlines, componentUpdateMap,
                   textureCache, glTextures, animationFrameId, rafPending, flushes,
                   hooks, lastDraw, probe, nextId>>

\* ---------------------------------------------------------------- specification
Init ==
    /\ dom = [domNode \in Elems |-> IF domNode = "e1" THEN Shown(R1) ELSE Shown(R2)]
    /\ scheduledOutlines = <<>>
    /\ activeOutlines = <<>>
    /\ componentUpdateMap = EmptyMap
    /\ rectCache = EmptyMap
    /\ textureCache = EmptyMap
    /\ glTextures = EmptyMap
    /\ animationFrameId = 0
    /\ rafPending = 0
    /\ flushes = <<>>
    /\ hooks = [onPaintStart |-> <<>>, onPaintFinish |-> <<>>]
    /\ lastDraw = [ok |-> TRUE, instances |-> 0, rectData |-> <<>>,
                   colorData |-> <<>>, labels |-> <<>>]
    /\ probe = NoProbe
    /\ nextId = 1

Report ==
    /\ nextId <= MaxEvents
    /\ \E domNode \in Elems, unstable \in BOOLEAN : onRenderEvent(domNode, unstable)
Flush == flushOutlinesGL
Tick == \E status \in GpuStatuses : fadeOutOutlineGL(status)
Recalc == recalcOutlines
Layout == \E domNode \in MovingElems, layout \in LayoutChoices : Relayout(domNode, layout)

Next == Report \/ Flush \/ Tick \/ Recalc \/ Layout \/ Elapse

Spec == Init /\ [][Next]_vars

\* The engine with the tick of part_000.
TickPart000 == \E status \in GpuStatuses : fadeOutOutlineGL_part000(status)

NextPart000 == Report \/ Flush \/ TickPart000 \/ Recalc \/ Layout \/ Elapse

SpecPart000 == Init /\ [][NextPart000]_vars

\* The engine on a page that re-renders more often: up to MaxRefreshEvents
\* stable renders, a GPU whose programs always validate, no scroll or resize.
ReportStable ==
    /\ nextId <= MaxRefreshEvents
    /\ \E domNode \in Elems : onRenderEvent(domNode, FALSE)
TickOk == fadeOutOutlineGL("ok")

NextRefresh == ReportStable \/ Flush \/ TickOk \/ Layout \/ Elapse

SpecRefresh == Init /\ [][NextRefresh]_vars

\* The engine under a burst of up to MaxBurstEvents unstable renders on a
\* page that stands still, with a GPU whose programs always validate.
ReportBurst ==
    /\ nextId <= MaxBurstEvents
    /\ \E domNode \in Elems : onRenderEvent(domNode, TRUE)

NextBurst == ReportBurst \/ Flush \/ TickOk

SpecBurst == Init /\ [][NextBurst]_vars

\* The same engine when the host fires every frame callback it holds.
FairSpecPart000 == SpecPart000 /\ WF_vars(TickPart000)

\* Unstable renders only, MaxEvents of them, with flushes and validated ticks;
\* the host fires every frame callback it holds.
ReportUnstable ==
    /\ nextId <= MaxEvents
    /\ \E domNode \in Elems : onRenderEvent(domNode, TRUE)
NextAwait == ReportUnstable \/ Flush \/ TickOk
SpecAwait == Init /\ [][NextAwait]_vars
FairSpecAwait == SpecAwait /\ WF_vars(TickOk)

\* The resolver on a page that sets and removes the opt-out attribute
\* data-react-scan-ignore, hides and moves nodes, while renders of any node are
\* reported and flushed.
Ignored(rect) == [Shown(rect) EXCEPT !.ignore = TRUE]
OptOutLayouts == {Shown(R1), Shown(R2), DisplayNone, Ignored(R1)}
ReportAny ==
    /\ nextId <= MaxEvents
    /\ \E domNode \in Elems, unstable \in BOOLEAN : onRenderEvent(domNode, unstable)
LayoutOptOut == \E domNode \in Elems, layout \in OptOutLayouts : Relayout(domNode, layout)

NextOutline == ReportAny \/ LayoutOptOut \/ Flush \/ Elapse

SpecOutline == Init /\ [][NextOutline]_vars

\* flushOutlinesGL(ctx, previousOutlines) as exported, up to the await of
\* Promise.all: a region whose key is in previousOutlines is not painted.  The
\* callback of a skipped region is the only one whose promise resolves.
flushOutlinesGLWith(previousOutlines) ==
    /\ scheduledOutlines # <<>>
    /\ LET firstOutlines == scheduledOutlines
           secondOutlines == <<>>
           mergedOutlines == mergeOutlines(firstOutlines \o secondOutlines)
           st == paintAll(PaintState, mergedOutlines, previousOutlines)
       IN  /\ scheduledOutlines' = <<>>
           /\ activeOutlines' = st.activeOutlines
           /\ componentUpdateMap' = st.componentUpdateMap
           /\ animationFrameId' = st.animationFrameId
           /\ rafPending' = st.rafPending
           /\ hooks' = st.hooks
           /\ flushes' = Append(flushes, st.promises)
    /\ UNCHANGED <<dom, rectCache, textureCache, glTextures, lastDraw, probe, nextId>>

\* The call the drain step of flush n makes, flushOutlinesGL(ctx,
\* newPreviousOutlines, toolbar): newPreviousOutlines holds the keys that
\* flush painted.
FollowUp == \E n \in 1..Len(flushes) : flushOutlinesGLWith({p.key : p \in flushes[n]})

\* The engine with both kinds of flushOutlinesGL call, the producer's and the
\* drain step's, on a page that stands still.
NextFollowUp == ReportUnstable \/ Flush \/ FollowUp \/ TickOk

SpecFollowUp == Init /\ [][NextFollowUp]_vars

\* getRect on its own, called again and again for the nodes of a page that
\* restyles, resizes and moves one of them while time passes.
Styled(display, visibility, opacity, rect) ==
    [display |-> display, visibility |-> visibility, opacity |-> opacity, ignore |-> FALSE,
     rect |-> rect]
RectLayouts ==
    {Shown(R1), Shown(R2), DisplayNone,
     Styled("block", "hidden", "1", R1), Styled("block", "visible", "0", R1),
     Shown(MkRect(10, 10, 0, 50)), Shown(MkRect(10, 10, 100, 0)),
     Shown(MkRect(-ViewportMargin, 0, 100, 50)),
     Shown(MkRect(-ViewportMargin - 1, 10, 100, 50)),
     Shown(MkRect(10, -1, 100, 50)),
     Shown(MkRect(innerHeight + ViewportMargin - 50, innerWidth + ViewportMargin - 100, 100, 50)),
     Shown(MkRect(innerHeight + ViewportMargin - 49, 10, 100, 50)),
     Shown(MkRect(10, innerWidth + ViewportMargin - 99, 100, 50))}

CachedEntry(cache, domNode) == IF MapHas(cache, domNode) THEN <<cache[domNode]>> ELSE <<>>

CallGetRect(domNode) ==
    /\ LET got == getRect(rectCache, dom, domNode)
       IN  /\ rectCache' = got.cache
           /\ probe' = [input |-> [domNode |-> domNode,
                                   cached |-> CachedEntry(rectCache, domNode)],
                        output |-> got.rect, done |-> TRUE]
    /\ UNCHANGED <<dom, scheduledOutlines, activeOutlines, componentUpdateMap,
                   textureCache, glTextures, animationFrameId, rafPending, flushes,
                   hooks, lastDraw, nextId>>

ReadRect == \E domNode \in Elems : CallGetRect(domNode)
LayoutRect == \E domNode \in MovingElems, layout \in RectLayouts : Relayout(domNode, layout)

NextRect == ReadRect \/ LayoutRect \/ Elapse

SpecRect == Init /\ [][NextRect]_vars

\* The color computation of paintOutlineGL on its own: any update count up to
\* one past maxRenders, for maxRenders up to MaxColorRenders and for the
\* default.
ColorInputs ==
    {[updateCount |-> c, maxRenders |-> m] :
        c \in 0..MaxColorRenders + 1, m \in 1..MaxColorRenders}
    \cup {[updateCount |-> c, maxRenders |-> DefaultMaxRenders] : c \in 0..DefaultMaxRenders + 1}

InitColor ==
    /\ dom = [domNode \in Elems |-> IF domNode = "e1" THEN Shown(R1) ELSE Shown(R2)]
    /\ scheduledOutlines = <<>>
    /\ activeOutlines = <<>>
    /\ componentUpdateMap = EmptyMap
    /\ rectCache = EmptyMap
    /\ textureCache = EmptyMap
    /\ glTextures = EmptyMap
    /\ animationFrameId = 0
    /\ rafPending = 0
    /\ flushes = <<>>
    /\ hooks = [onPaintStart |-> <<>>, onPaintFinish |-> <<>>]
    /\ lastDraw = [ok |-> TRUE, instances |-> 0, rectData |-> <<>>, colorData |-> <<>>,
                   labels |-> <<>>]
    /\ probe \in {[input |-> input, output |-> <<>>, done |-> FALSE] : input \in ColorInputs}
    /\ nextId = 1

\* The color for the given count and for the next one.
CallColor ==
    /\ ~probe.done
    /\ probe' = [probe EXCEPT
                    !.output = [at |-> colorOf(probe.input.updateCount, probe.input.maxRenders),
                                next |-> colorOf(probe.input.updateCount + 1,
                                                 probe.input.maxRenders)],
                    !.done = TRUE]
    /\ UNCHANGED <<dom, scheduledOutlines, activeOutlines, componentUpdateMap, rectCache,
                   textureCache, glTextures, animationFrameId, rafPending, flushes,
                   hooks, lastDraw, nextId>>

NextColor == CallColor

SpecColor == InitColor /\ [][NextColor]_vars

\* mergeOutlines on its own: any list of up to MaxMergeLen pending outlines,
\* each with up to MaxRenderLen render events of its own.  mergeOutlines
\* reads rect and renders only, so one node stands for all.
MergeShapes == [rect : {R1, R2}, domNode : {"e1"}, n : 1..MaxRenderLen]
MergeInput(shapes) ==
    [i \in 1..Len(shapes) |->
        [rect |-> shapes[i].rect, domNode |-> shapes[i].domNode,
         renders |-> [j \in 1..shapes[i].n |->
                        [id |-> i * (MaxRenderLen + 1) + j, name |-> "A", count |-> 1,
                         unstable |-> FALSE]]]]
MergeInputs ==
    UNION { {MergeInput(shapes) : shapes \in [1..n -> MergeShapes]} : n \in 0..MaxMergeLen }

InitMerge ==
    /\ dom = [domNode \in Elems |-> IF domNode = "e1" THEN Shown(R1) ELSE Shown(R2)]
    /\ scheduledOutlines = <<>>
    /\ activeOutlines = <<>>
    /\ componentUpdateMap = EmptyMap
    /\ rectCache = EmptyMap
    /\ textureCache = EmptyMap
    /\ glTextures = EmptyMap
    /\ animationFrameId = 0
    /\ rafPending = 0
    /\ flushes = <<>>
    /\ hooks = [onPaintStart |-> <<>>, onPaintFinish |-> <<>>]
    /\ lastDraw = [ok |-> TRUE, instances |-> 0, rectData |-> <<>>, colorData |-> <<>>,
                   labels |-> <<>>]
    /\ probe \in {[input |-> input, output |-> <<>>, done |-> FALSE] : input \in MergeInputs}
    /\ nextId = 1

CallMerge ==
    /\ ~probe.done
    /\ probe' = [probe EXCEPT !.output = mergeOutlines(probe.input), !.done = TRUE]
    /\ UNCHANGED <<dom, scheduledOutlines, activeOutlines, componentUpdateMap, rectCache,
                   textureCache, glTextures, animationFrameId, rafPending, flushes,
                   hooks, lastDraw, nextId>>

NextMerge == CallMerge

SpecMerge == InitMerge /\ [][NextMerge]_vars

\* The objects of the array handed to mergeOutlines, as they are after the
\* call: the Map holds the first region of every key itself, not a copy, and
\* the renders of the later regions of the key are pushed onto it.
mergeOutlinesInputs(outlines) ==
    LET merged == mergeOutlines(outlines)
    IN  [i \in 1..Len(outlines) |->
            IF \A j \in 1..(i - 1) : getOutlineKey(outlines[j]) # getOutlineKey(outlines[i])
            THEN merged[CHOOSE k \in 1..Len(merged) :
                            getOutlineKey(merged[k]) = getOutlineKey(outlines[i])]
            ELSE outlines[i]]

\* mergeOutlines on its own, with a look at its argument after the call.
CallMergeInputs ==
    /\ ~probe.done
    /\ probe' = [probe EXCEPT !.output = [result |-> mergeOutlines(probe.input),
                                          inputs |-> mergeOutlinesInputs(probe.input)],
                              !.done = TRUE]
    /\ UNCHANGED <<dom, scheduledOutlines, activeOutlines, componentUpdateMap, rectCache,
                   textureCache, glTextures, animationFrameId, rafPending, flushes,
                   hooks, lastDraw, nextId>>

NextMergeInputs == CallMergeInputs

SpecMergeInputs == InitMerge /\ [][NextMergeInputs]_vars

\* mergeOutlines called a second time, on the array it was first handed (whose
\* objects are as the first call left them) and on the array it returned.
CallMergeAgain ==
    /\ probe.done
    /\ DOMAIN probe.output = {"result", "inputs"}
    /\ probe' = [probe EXCEPT !.output = [result |-> probe.output.result,
                                          inputs |-> mergeOutlinesInputs(probe.output.inputs),
                                          again |-> mergeOutlines(probe.output.inputs),
                                          onResult |-> mergeOutlines(probe.output.result)]]
    /\ UNCHANGED <<dom, scheduledOutlines, activeOutlines, componentUpdateMap, rectCache,
                   textureCache, glTextures, animationFrameId, rafPending, flushes,
                   hooks, lastDraw, nextId>>

NextMergeAgain == CallMergeInputs \/ CallMergeAgain

SpecMergeAgain == InitMerge /\ [][NextMergeAgain]_vars

\* ====================================================================== claims
\* Vocabulary shared by the properties below.
ActiveKeys(actives) == {getOutlineKey(actives[i].outline) : i \in 1..Len(actives)}
CountKey(actives, key) ==
    Cardinality({i \in 1..Len(actives) : getOutlineKey(actives[i].outline) = key})
PendingKeys(outlines) == {getOutlineKey(outlines[i]) : i \in 1..Len(outlines)}
\* The identities of the render events accumulated in the registry.
RegistryIds(actives) ==
    UNION { {actives[i].outline.renders[j].id : j \in 1..Len(actives[i].outline.renders)} :
            i \in 1..Len(actives) }
RegistryCount(actives, id) ==
    Cardinality({<<i, j>> \in (1..Len(actives)) \X (1..MaxBurstEvents) :
                    /\ j <= Len(actives[i].outline.renders)
                    /\ actives[i].outline.renders[j].id = id})
TickAborted == \E status \in GpuStatuses \ {"ok"} : fadeOutOutlineGL(status)
TickDrawn == fadeOutOutlineGL("ok")

\* C1: a paintOutlineGL for a key that already has a registry entry resets the
\* frame of that entry to 0 and adds no entry: the number of entries with that
\* key, and the size of the registry apart from keys that were absent, stay as
\* they were.
C1_RefreshResetsFrame ==
    [][flushOutlinesGL =>
        LET batch == PendingKeys(mergeOutlines(scheduledOutlines))
            refreshed == batch \cap ActiveKeys(activeOutlines)
        IN  /\ \A key \in refreshed :
                /\ activeOutlines'[findActive(activeOutlines, key)].frame = 0
                /\ getOutlineKey(activeOutlines'[findActive(activeOutlines, key)].outline) = key
                /\ CountKey(activeOutlines', key) = CountKey(activeOutlines, key)
            /\ Len(activeOutlines') =
                  Len(activeOutlines) + Cardinality(batch \ ActiveKeys(activeOutlines))]_vars

\* A flush has refreshed an entry: a promise whose resolve was not stored, and
\* the entry of its key restarted with the appended render events.
C1_Witness ==
    \E n \in 1..Len(flushes) : \E p \in flushes[n] :
        /\ ~p.stored
        /\ \E i \in 1..Len(activeOutlines) :
              /\ getOutlineKey(activeOutlines[i].outline) = p.key
              /\ activeOutlines[i].frame = 0
              /\ Len(activeOutlines[i].outline.renders) >= 2
              /\ CountKey(activeOutlines, p.key) = 1

\* C2: no two entries of the registry have the same GeometryKey.
\* C1 as stated: after a flush, a key of the batch that was already in the
\* registry has exactly one entry there, and that entry is at frame 0.
C1_RefreshKeepsOneEntry ==
    [][flushOutlinesGL =>
        \A key \in PendingKeys(mergeOutlines(scheduledOutlines)) \cap ActiveKeys(activeOutlines) :
            /\ CountKey(activeOutlines', key) = 1
            /\ \A i \in 1..Len(activeOutlines') :
                  getOutlineKey(activeOutlines'[i].outline) = key => activeOutlines'[i].frame = 0]_vars

C2_UniqueKeys ==
    \A i, j \in 1..Len(activeOutlines) :
        i # j => getOutlineKey(activeOutlines[i].outline) # getOutlineKey(activeOutlines[j].outline)

\* The registry entry created by the paint whose promise is pid, if it is
\* still there (0 otherwise).
EntryOf(actives, pid) ==
    IF \E i \in 1..Len(actives) : actives[i].resolve = pid
    THEN CHOOSE i \in 1..Len(actives) : actives[i].resolve = pid
    ELSE 0
Entries(actives) == {actives[i].resolve : i \in 1..Len(actives)}

\* C3, as the code has it: an entry is created at frame 0; a tick whose
\* rectangle draw is carried out advances every entry by exactly 1 and removes
\* exactly the entries whose frame then exceeds totalFrames; a tick whose draw
\* is aborted advances and removes nothing; so between ticks no entry has a
\* frame above totalFrames.  (Only recalcOutlines removes an entry earlier.)
C3_FrameLifecycle ==
    /\ [](\A i \in 1..Len(activeOutlines) :
            activeOutlines[i].frame >= 0 /\ activeOutlines[i].frame <= activeOutlines[i].totalFrames)
    /\ [][flushOutlinesGL =>
            \A pid \in Entries(activeOutlines') \ Entries(activeOutlines) :
                activeOutlines'[EntryOf(activeOutlines', pid)].frame = 0]_vars
    /\ [][TickDrawn =>
            /\ Entries(activeOutlines') \subseteq Entries(activeOutlines)
            /\ \A i \in 1..Len(activeOutlines) :
                  LET a == activeOutlines[i]
                  IN  IF a.frame + 1 > a.totalFrames
                      THEN a.resolve \notin Entries(activeOutlines')
                      ELSE /\ a.resolve \in Entries(activeOutlines')
                           /\ activeOutlines'[EntryOf(activeOutlines', a.resolve)].frame = a.frame + 1]_vars
    /\ [][TickAborted =>
            /\ Len(activeOutlines') = Len(activeOutlines)
            /\ \A i \in 1..Len(activeOutlines) :
                  /\ activeOutlines'[i].resolve = activeOutlines[i].resolve
                  /\ activeOutlines'[i].frame = activeOutlines[i].frame]_vars

\* An entry has been advanced by ticks up to its last frame, and the tick
\* before this state had its draw aborted.
C3_Witness ==
    /\ ~lastDraw.ok
    /\ \E i \in 1..Len(activeOutlines) :
          activeOutlines[i].frame = activeOutlines[i].totalFrames

\* C3 as stated: every tick advances every entry by exactly 1, removing it
\* exactly when its frame then exceeds totalFrames, and no other step removes
\* an entry.
C3_EveryTickAdvances ==
    /\ [][Tick =>
            \A i \in 1..Len(activeOutlines) :
                LET a == activeOutlines[i]
                IN  IF a.frame + 1 > a.totalFrames
                    THEN a.resolve \notin Entries(activeOutlines')
                    ELSE /\ a.resolve \in Entries(activeOutlines')
                         /\ activeOutlines'[EntryOf(activeOutlines', a.resolve)].frame = a.frame + 1]_vars
    /\ [][~Tick => Entries(activeOutlines) \subseteq Entries(activeOutlines')]_vars

Invisible(domNode) == getRect(EmptyMap, dom, domNode).rect = <<>>
Occurrences(seq, x) == Cardinality({i \in 1..Len(seq) : seq[i] = x})

\* C4, as the code has it: a render event leaves the pending queue either by a
\* flush, which puts it into the registry exactly once, or by a recalcOutlines
\* run that drops its region because its element is no longer visible; no
\* other step takes an event off the queue, no step but a flush adds an event
\* to the registry, and no event is ever in the registry twice or both there
\* and on the queue.
C4_AppliedOnce ==
    /\ [](/\ \A id \in RegistryIds(activeOutlines) : RegistryCount(activeOutlines, id) = 1
          /\ RenderIds(scheduledOutlines) \cap RegistryIds(activeOutlines) = {})
    /\ [][flushOutlinesGL =>
            /\ \A id \in RenderIds(scheduledOutlines) : RegistryCount(activeOutlines', id) = 1
            /\ RegistryIds(activeOutlines') =
                  RegistryIds(activeOutlines) \cup RenderIds(scheduledOutlines)]_vars
    /\ [][~flushOutlinesGL =>
            /\ RegistryIds(activeOutlines') \subseteq RegistryIds(activeOutlines)
            /\ \A i \in 1..Len(scheduledOutlines) :
                  RenderIds(<<scheduledOutlines[i]>>) \cap RenderIds(scheduledOutlines') = {} =>
                      recalcOutlines /\ Invisible(scheduledOutlines[i].domNode)]_vars

\* A region pushed while the first flush was still awaiting its paints has
\* been applied by a second flush, once.
C4_Witness ==
    /\ Len(flushes) >= 2
    /\ flushes[1] # {}
    /\ \E p \in flushes[2] : RegistryCount(activeOutlines, p.id) = 1

\* C4 as stated: a render event on the pending queue stays there until it is
\* applied to the registry, once; it is never dropped.
C4_NeverDropped ==
    [][\A id \in RenderIds(scheduledOutlines) :
          \/ id \in RenderIds(scheduledOutlines')
          \/ RegistryCount(activeOutlines', id) = 1]_vars

\* C5: a tick that removes an entry because its frame exceeds totalFrames
\* invokes that entry's completion callback (onPaintFinish), exactly once.
C5_RemovalResolves ==
    [][TickDrawn =>
        \A i \in 1..Len(activeOutlines) :
            activeOutlines[i].resolve \notin Entries(activeOutlines') =>
                Occurrences(hooks'.onPaintFinish, activeOutlines[i].resolve) =
                    Occurrences(hooks.onPaintFinish, activeOutlines[i].resolve) + 1]_vars

RendersWithKey(outlines, key) ==
    {<<i, j>> \in (1..Len(outlines)) \X (1..MaxMergeLen * MaxRenderLen) :
        /\ getOutlineKey(outlines[i]) = key
        /\ j <= Len(outlines[i].renders)}

\* C6: mergeOutlines returns exactly one region per distinct GeometryKey of
\* its input, whose render list is as long as the render lists of all input
\* regions with that key together, and holds the same render events.
C6_MergeSums ==
    probe.done =>
        /\ PendingKeys(probe.output) = PendingKeys(probe.input)
        /\ \A i, j \in 1..Len(probe.output) :
              i # j => getOutlineKey(probe.output[i]) # getOutlineKey(probe.output[j])
        /\ \A i \in 1..Len(probe.output) :
              LET key == getOutlineKey(probe.output[i])
                  from == RendersWithKey(probe.input, key)
              IN  /\ Len(probe.output[i].renders) = Cardinality(from)
                  /\ \A at \in from :
                        Occurrences(probe.output[i].renders,
                                    probe.input[at[1]].renders[at[2]]) = 1

\* mergeOutlines was given three regions, two of them with the same key and
\* one with several render events, and returned two.
C6_Witness ==
    /\ probe.done
    /\ Len(probe.input) = 3
    /\ Len(probe.output) = 2
    /\ \E i \in 1..2 : Len(probe.output[i].renders) >= 3

\* C7: a tick whose rectangle draw is aborted (validation or link failure, or
\* a missing attribute location) skips only its draw: the next frame callback
\* is requested all the same.  Stated for the tick of part_000.
C7_AbortedTickReschedules ==
    [][\A status \in GpuStatuses \ {"ok"} :
          fadeOutOutlineGL_part000(status) => rafPending' > 0 /\ animationFrameId' # 0]_vars

\* No further render event arrives and none is pending.
Quiescent == nextId > MaxEvents /\ scheduledOutlines = <<>>
\* The tick loop has halted.
Idle == activeOutlines = <<>> /\ animationFrameId = 0 /\ rafPending = 0

\* C8: once no further render event arrives and none is pending, and the host
\* fires every frame callback it holds, the engine eventually has an empty
\* registry, a null animationFrameId and no frame callback pending.
C8_LoopHalts == Quiescent ~> Idle

C10_IdleCleanupClearsAll ==
    [][(Tick /\ activeOutlines = <<>>) =>
          /\ rectCache' = EmptyMap
          /\ componentUpdateMap' = EmptyMap
          /\ textureCache' = EmptyMap
          /\ \A text \in DOMAIN textureCache :
                textureCache[text].useCount <= 1 => glTextures'[text] = glTextures[text] - 1]_vars

\* The idle cleanup has run with a label in the texture cache: the caches are
\* empty and that label's texture is deleted.
C10_Witness ==
    /\ animationFrameId = 0
    /\ rafPending = 0
    /\ rectCache = EmptyMap /\ componentUpdateMap = EmptyMap /\ textureCache = EmptyMap
    /\ \E text \in DOMAIN glTextures : glTextures[text] = 0

\* C10 as stated: the idle cleanup empties the geometry cache and the
\* intensity counters and leaves the label texture cache as it was.
C10_IdleCleanupKeepsTextures ==
    [][(Tick /\ activeOutlines = <<>>) =>
          /\ rectCache' = EmptyMap
          /\ componentUpdateMap' = EmptyMap
          /\ textureCache' = textureCache
          /\ glTextures' = glTextures]_vars

\* The GPU textures of label text that are alive (created and not deleted).
LiveTextures(gl, text) == IF MapHas(gl, text) THEN gl[text] ELSE 0
\* The useCount of the cache entry of text, 0 when there is none.
UseCount(cache, text) == IF MapHas(cache, text) THEN cache[text].useCount ELSE 0
ReferencedTexts(actives) == {actives[i].text : i \in 1..Len(actives)}

\* C11: a createTextTexture call for a text that has a cache entry allocates
\* no GPU texture and only increments the useCount of that entry; a tick that
\* meets a cached text leaves its entry and its texture alone; and no text
\* ever has more than one live texture.
C11_NoSecondTexture ==
    /\ [](\A text \in DOMAIN glTextures : glTextures[text] <= 1)
    /\ [](\A text \in DOMAIN textureCache :
            LET called == createTextTexture(textureCache, glTextures, text)
            IN  /\ called.glTextures = glTextures
                /\ called.textureCache =
                      [textureCache EXCEPT ![text].useCount = textureCache[text].useCount + 1])
    /\ [][(Tick /\ activeOutlines # <<>>) =>
            \A text \in DOMAIN textureCache :
                /\ MapHas(textureCache', text)
                /\ textureCache'[text] = textureCache[text]
                /\ glTextures'[text] = glTextures[text]]_vars

\* Two registry entries carry the same label, which was rasterized once and
\* drawn for both.
C11_Witness ==
    /\ \E i, j \in 1..Len(activeOutlines) :
          /\ i # j
          /\ activeOutlines[i].text = activeOutlines[j].text
          /\ MapHas(textureCache, activeOutlines[i].text)
          /\ glTextures[activeOutlines[i].text] = 1
    /\ Len(lastDraw.labels) >= 2

C13_CountIsOutstandingAcquisitions ==
    /\ [](\A text \in ReferencedTexts(activeOutlines) :
            LiveTextures(glTextures, text) >= 1 =>
                MapHas(textureCache, text) /\ textureCache[text].useCount >= 1)
    /\ [][(TickDrawn /\ activeOutlines # <<>>) =>
            \A i \in 1..Len(activeOutlines) :
                (isOutlineUnstable(activeOutlines[i].outline)
                    /\ ~MapHas(textureCache, activeOutlines[i].text)) =>
                        UseCount(textureCache', activeOutlines[i].text) = 1]_vars
    /\ [][\A text \in DOMAIN textureCache \cup DOMAIN textureCache' :
            UseCount(textureCache', text) # UseCount(textureCache, text) =>
                /\ Tick
                /\ IF activeOutlines # <<>>
                   THEN /\ UseCount(textureCache', text) = UseCount(textureCache, text) + 1
                        /\ \E i \in 1..Len(activeOutlines) :
                              /\ activeOutlines[i].text = text
                              /\ isOutlineUnstable(activeOutlines[i].outline)
                   ELSE UseCount(textureCache', text) = 0]_vars

\* An entry that has been drawn for two ticks carries a label whose cache
\* entry counts its one acquisition.
C13_Witness ==
    \E i \in 1..Len(activeOutlines) :
        /\ activeOutlines[i].frame >= 2
        /\ MapHas(textureCache, activeOutlines[i].text)
        /\ textureCache[activeOutlines[i].text].useCount = 1
        /\ glTextures[activeOutlines[i].text] = 1

\* What the claim calls an element without a region: not rendered, of zero
\* width or height, or beyond the viewport extended by the margin.
Suppressed(style) ==
    style.display = "none" \/ style.visibility = "hidden" \/ style.opacity = "0"
ZeroSized(rect) == rect.width = 0 \/ rect.height = 0
BeyondMargin(rect) ==
    \/ rect.top < -ViewportMargin
    \/ rect.left < -ViewportMargin
    \/ bottom(rect) > innerHeight + ViewportMargin
    \/ right(rect) > innerWidth + ViewportMargin
NoRegion(style) == Suppressed(style) \/ ZeroSized(style.rect) \/ BeyondMargin(style.rect)
Fresh(cache, domNode) == MapHas(cache, domNode) /\ cache[domNode].age < TTL

\* C14, as the code has it: a getRect call that finds no cache entry younger
\* than the TTL returns null for every element that is not rendered, has zero
\* width or height or lies beyond the extended margin; a call that finds such
\* an entry returns the cached rect whatever the element has become; and a
\* call that returns null leaves the cache as it was.
C14_NullUnlessFresh ==
    [][\A domNode \in Elems :
          CallGetRect(domNode) =>
              /\ (~Fresh(rectCache, domNode) /\ NoRegion(dom[domNode])) => probe'.output = <<>>
              /\ Fresh(rectCache, domNode) => probe'.output = <<rectCache[domNode].rect>>
              /\ probe'.output = <<>> => rectCache' = rectCache]_vars

\* getRect has returned the rect cached less than the TTL ago for an element
\* that is no longer rendered.
C14_Witness ==
    /\ probe.done
    /\ probe.input.cached # <<>>
    /\ probe.input.cached[1].age < TTL
    /\ Suppressed(dom[probe.input.domNode])
    /\ probe.output = <<probe.input.cached[1].rect>>

\* C14 as stated: whatever calls came before, getRect returns null for an
\* element that is not rendered, has zero size or lies beyond the margin, and
\* a call that returns null writes no cache entry.
C14_AlwaysNull ==
    [][\A domNode \in Elems :
          CallGetRect(domNode) =>
              /\ NoRegion(dom[domNode]) => probe'.output = <<>>
              /\ probe'.output = <<>> => rectCache' = rectCache]_vars

\* C15: a getRect call for an element whose cache entry is younger than the
\* TTL returns the cached rect and leaves the cache alone; a call that finds
\* no such entry returns what a read of the live layout gives and, when that
\* is a rect, stores it with a new timestamp.
C15_TtlWindow ==
    [][\A domNode \in Elems :
          CallGetRect(domNode) =>
              IF MapHas(rectCache, domNode) /\ rectCache[domNode].age < TTL
              THEN /\ probe'.output = <<rectCache[domNode].rect>>
                   /\ rectCache' = rectCache
              ELSE /\ probe'.output = getRect(EmptyMap, dom, domNode).rect
                   /\ probe'.output # <<>> =>
                         rectCache' = MapSet(rectCache, domNode,
                                             [rect |-> probe'.output[1], age |-> 0])]_vars

\* getRect has found an entry of exactly the TTL's age, read the layout again
\* and replaced the entry by the element's new rect.
C15_Witness ==
    /\ probe.done
    /\ probe.input.cached # <<>>
    /\ probe.input.cached[1].age = TTL
    /\ probe.output # <<>>
    /\ probe.output[1] # probe.input.cached[1].rect
    /\ rectCache[probe.input.domNode] = [rect |-> probe.output[1], age |-> 0]

Between(x, a, b) == (a <= x /\ x <= b) \/ (b <= x /\ x <= a)

\* C16: the color of paintOutlineGL is the cool anchor for count 0, the hot
\* anchor for every count >= maxRenders, and in between every channel stays
\* between the anchors and moves monotonically with the count: r does not
\* decrease, g and b do not increase.
C16_ColorGradient ==
    probe.done =>
        LET c == probe.input.updateCount
            m == probe.input.maxRenders
            at == probe.output.at
            next == probe.output.next
        IN  /\ c = 0 => at = START_COLOR
            /\ c >= m => at = END_COLOR
            /\ Between(at.r, START_COLOR.r, END_COLOR.r)
            /\ Between(at.g, START_COLOR.g, END_COLOR.g)
            /\ Between(at.b, START_COLOR.b, END_COLOR.b)
            /\ at.r <= next.r /\ at.g >= next.g /\ at.b >= next.b

\* The color was computed for a count strictly between 0 and maxRenders and
\* differs from both anchors and from the color of the next count.
C16_Witness ==
    /\ probe.done
    /\ 0 < probe.input.updateCount /\ probe.input.updateCount < probe.input.maxRenders
    /\ probe.output.at # START_COLOR /\ probe.output.at # END_COLOR
    /\ probe.output.next.r > probe.output.at.r
    /\ probe.output.next.b < probe.output.at.b

\* The render events of the pending queue that fall on key.
QueuedOn(outlines, key) ==
    {i \in 1..Len(outlines) : getOutlineKey(outlines[i]) = key}

\* C17, as the code has it: the first flush after idle, whatever the number
\* of render events it merges for a geometry, leaves one entry per geometry
\* with all those events, frame 0, and the color of update count 1: the same
\* color as for a single render event.
C17_BurstPaintedOnce ==
    [][(flushOutlinesGL /\ activeOutlines = <<>> /\ componentUpdateMap = EmptyMap) =>
          /\ Len(activeOutlines') = Cardinality(PendingKeys(scheduledOutlines))
          /\ \A i \in 1..Len(activeOutlines') :
                LET a == activeOutlines'[i]
                    key == getOutlineKey(a.outline)
                IN  /\ CountKey(activeOutlines', key) = 1
                    /\ Len(a.outline.renders) = Cardinality(QueuedOn(scheduledOutlines, key))
                    /\ a.frame = 0
                    /\ componentUpdateMap'[key] = 1
                    /\ a.color = colorOf(1, DefaultMaxRenders)]_vars

\* One flush has merged five render events of one geometry into the only
\* entry, not yet drawn, with the color of a single update.
C17_Witness ==
    /\ Len(flushes) = 1
    /\ Len(activeOutlines) = 1
    /\ Len(activeOutlines[1].outline.renders) = 5
    /\ activeOutlines[1].frame = 0
    /\ activeOutlines[1].color = colorOf(1, DefaultMaxRenders)

\* C17 as stated: the entry that one flush makes of five render events of
\* one geometry is at frame 0 and its color is further from the cool anchor
\* than the color of a single render event.
C17_BurstIsHotter ==
    \A i \in 1..Len(activeOutlines) :
        (Len(flushes) = 1 /\ Len(activeOutlines[i].outline.renders) = 5) =>
            /\ activeOutlines[i].frame = 0 \/ lastDraw.instances > 0
            /\ activeOutlines[i].color.r > colorOf(1, DefaultMaxRenders).r

\* C18: the update count of a key never decreases and its counter is never
\* dropped, except in the idle cleanup of a tick that finds the registry
\* empty, which drops every counter.
C18_CounterMonotone ==
    [][\A key \in DOMAIN componentUpdateMap :
          \/ /\ MapHas(componentUpdateMap', key)
             /\ componentUpdateMap'[key] >= componentUpdateMap[key]
          \/ /\ Tick
             /\ activeOutlines = <<>>
             /\ componentUpdateMap' = EmptyMap]_vars

\* A key has been painted twice since the last idle cleanup.
C18_Witness ==
    \E key \in DOMAIN componentUpdateMap : componentUpdateMap[key] = 2

\* The paint promises of flush n that are still unresolved: a promise is
\* resolved by the resolve function of its registry entry, which also reports
\* onPaintFinish.
Unresolved(n) == {p \in flushes[n] : Occurrences(hooks.onPaintFinish, p.id) = 0}
\* The flushOutlinesGL invocations still awaiting Promise.all.
InFlight == {n \in 1..Len(flushes) : Unresolved(n) # {}}

\* C19: a region pushed onto the pending queue while a flush is awaiting its
\* paints is taken off the queue without a new flushOutlinesGL call of the
\* producer: stated as what must follow when the producer makes none.
C19_DrainedBySameFlush ==
    (InFlight # {} /\ scheduledOutlines # <<>>) ~> (scheduledOutlines = <<>>)

\* C20: at most one flushOutlinesGL invocation is awaiting its paints at any
\* time.
C20_OneFlushInFlight == Cardinality(InFlight) <= 1

\* The render events of the queued regions with the given key, in queue order.
RECURSIVE AllRenders(_, _)
AllRenders(outlines, key) ==
    IF outlines = <<>> THEN <<>>
    ELSE (IF getOutlineKey(Head(outlines)) = key THEN Head(outlines).renders ELSE <<>>)
         \o AllRenders(Tail(outlines), key)

\* C21: a flush calls paintOutlineGL exactly once for every distinct key of
\* the batch it swapped out, and the call carries all render events the batch
\* holds for that key: the registry entry of the key ends with them, in queue
\* order, and holds nothing else new.
C21_OnePaintPerKey ==
    [][flushOutlinesGL =>
        LET keys == PendingKeys(scheduledOutlines)
            promises == flushes'[Len(flushes')]
        IN  /\ Len(hooks'.onPaintStart) = Len(hooks.onPaintStart) + Cardinality(keys)
            /\ Cardinality(promises) = Cardinality(keys)
            /\ \A key \in keys :
                  LET merged == AllRenders(scheduledOutlines, key)
                      before == IF findActive(activeOutlines, key) = 0 THEN <<>>
                                ELSE activeOutlines[findActive(activeOutlines, key)].outline.renders
                      after == activeOutlines'[findActive(activeOutlines', key)].outline.renders
                  IN  /\ \E p \in promises : p.key = key /\ p.id = Head(merged).id
                      /\ Occurrences(SubSeq(hooks'.onPaintStart, Len(hooks.onPaintStart) + 1,
                                            Len(hooks'.onPaintStart)),
                                     Head(merged).id) = 1
                      /\ after = before \o merged]_vars

\* One flush has painted one region made of two queued render events.
C21_Witness ==
    /\ Len(flushes) = 1
    /\ Len(hooks.onPaintStart) = 1
    /\ \E i \in 1..Len(activeOutlines) : Len(activeOutlines[i].outline.renders) = 2

\* C22: a recalcOutlines run leaves on the pending queue and in the registry
\* only regions whose element is visible on the page as it is now, each with
\* the rect the element has now, and drops no region of a visible element.
C22_RecalcRevalidates ==
    [][recalcOutlines =>
        /\ \A i \in 1..Len(scheduledOutlines') :
              /\ ~Invisible(scheduledOutlines'[i].domNode)
              /\ scheduledOutlines'[i].rect = dom[scheduledOutlines'[i].domNode].rect
        /\ \A i \in 1..Len(activeOutlines') :
              /\ ~Invisible(activeOutlines'[i].outline.domNode)
              /\ activeOutlines'[i].outline.rect = dom[activeOutlines'[i].outline.domNode].rect
        /\ RenderIds(scheduledOutlines') =
              RenderIds(SelectSeq(scheduledOutlines, LAMBDA o : ~Invisible(o.domNode)))
        /\ Entries(activeOutlines') =
              Entries(SelectSeq(activeOutlines, LAMBDA a : ~Invisible(a.outline.domNode)))]_vars

\* C23: a registry entry is restarted at frame 0 by every flush that paints
\* its key, and a tick removes an entry only after advancing it through all
\* its totalFrames since it was last restarted; so an entry whose key is
\* painted again at least once every totalFrames ticks is never removed by a
\* tick.
C23_RefreshedNeverExpires ==
    /\ [][flushOutlinesGL =>
            \A i \in 1..Len(activeOutlines) :
                getOutlineKey(activeOutlines[i].outline) \in PendingKeys(scheduledOutlines)
                    => /\ activeOutlines'[i].resolve = activeOutlines[i].resolve
                       /\ activeOutlines'[i].frame = 0]_vars
    /\ [][TickOk =>
            \A i \in 1..Len(activeOutlines) :
                activeOutlines[i].resolve \notin Entries(activeOutlines')
                    => activeOutlines[i].frame >= activeOutlines[i].totalFrames]_vars

\* C24: a flush that paints a key with no registry entry leaves exactly one
\* entry with that key, at frame 0, with alpha at its maximum and with the
\* long fade window when one of the render events painted is unstable, the
\* short one otherwise; the long window is strictly longer than the short.
C24_NewEntry ==
    /\ UnstableFrames > StableFrames
    /\ [][flushOutlinesGL =>
            \A key \in PendingKeys(scheduledOutlines) \ ActiveKeys(activeOutlines) :
                LET merged == AllRenders(scheduledOutlines, key)
                    i == findActive(activeOutlines', key)
                IN  /\ CountKey(activeOutlines', key) = 1
                    /\ i > Len(activeOutlines)
                    /\ activeOutlines'[i].frame = 0
                    /\ activeOutlines'[i].alpha = AlphaUnit
                    /\ activeOutlines'[i].alpha >= alphaScalar(TRUE)
                    /\ activeOutlines'[i].outline.renders = merged
                    /\ activeOutlines'[i].totalFrames =
                          (IF \E j \in 1..Len(merged) : merged[j].unstable
                           THEN UnstableFrames ELSE StableFrames)]_vars

\* A flush has just created one entry with the long window and one with the
\* short.
C24_Witness ==
    /\ Len(flushes) = 1
    /\ \E i, j \in 1..Len(activeOutlines) :
          /\ activeOutlines[i].frame = 0 /\ activeOutlines[i].totalFrames = UnstableFrames
          /\ activeOutlines[j].frame = 0 /\ activeOutlines[j].totalFrames = StableFrames
          /\ activeOutlines[i].alpha = AlphaUnit /\ activeOutlines[j].alpha = AlphaUnit

\* The fixed color of a stable region, as the 0..255 values the buffer holds
\* divided by 255.
AccentColor == <<255, 25, 115>>
HasUnstable(renders) == \E j \in 1..Len(renders) : renders[j].unstable

\* C25: the color buffer a tick builds holds, for every registry entry in
\* registry order, the entry's gradient color with the fade of the full alpha
\* scalar when one of its render events is unstable, and the accent color
\* (255, 25, 115) with the fade of a fifth of that scalar otherwise, whatever
\* the entry's own color is.
C25_ColorBuffer ==
    [][TickOk /\ activeOutlines # <<>> =>
        /\ Len(lastDraw'.colorData) = Len(activeOutlines)
        /\ \A i \in 1..Len(activeOutlines) :
              LET a == activeOutlines[i]
                  fade(scalar) == (scalar * (a.totalFrames - a.frame)) \div a.totalFrames
              IN  IF HasUnstable(a.outline.renders)
                  THEN lastDraw'.colorData[i] =
                          <<a.color.r, a.color.g, a.color.b, fade(AlphaUnit)>>
                  ELSE /\ lastDraw'.colorData[i] =
                              AccentColor \o <<fade(AlphaUnit \div 5)>>
                       /\ fade(AlphaUnit \div 5) < AlphaUnit]_vars

\* A tick has drawn an unstable and a stable region together: the first in its
\* gradient color, the second in the accent color although it carries a
\* gradient color of its own.
C25_Witness ==
    /\ lastDraw.ok
    /\ Len(lastDraw.colorData) = 2
    /\ Len(activeOutlines) = 2
    /\ \E i, j \in 1..2 :
          /\ HasUnstable(activeOutlines[i].outline.renders)
          /\ SubSeq(lastDraw.colorData[i], 1, 3) =
                <<activeOutlines[i].color.r, activeOutlines[i].color.g, activeOutlines[i].color.b>>
          /\ ~HasUnstable(activeOutlines[j].outline.renders)
          /\ SubSeq(lastDraw.colorData[j], 1, 3) = AccentColor
          /\ activeOutlines[j].color = colorOf(1, DefaultMaxRenders)
          /\ lastDraw.colorData[j][4] < lastDraw.colorData[i][4]

\* C26, as the code has it: a tick that finds the registry non-empty and whose
\* outline program validates, links and has its attributes issues one
\* drawArraysInstanced call for as many instances as the registry has entries
\* at that moment, with one rect and one color per instance; a tick whose
\* program fails one of the three tests issues no rectangle draw at all.
C26_OneInstancedDraw ==
    /\ [][TickDrawn /\ activeOutlines # <<>> =>
            /\ lastDraw'.ok
            /\ lastDraw'.instances = Len(activeOutlines)
            /\ Len(lastDraw'.rectData) = Len(activeOutlines)
            /\ Len(lastDraw'.colorData) = Len(activeOutlines)]_vars
    /\ [][TickAborted /\ activeOutlines # <<>> =>
            /\ ~lastDraw'.ok
            /\ lastDraw'.instances = 0
            /\ lastDraw'.rectData = <<>>]_vars

\* One draw has put two regions on the canvas.
C26_Witness ==
    /\ lastDraw.ok
    /\ lastDraw.instances = 2
    /\ Len(lastDraw.rectData) = 2

\* C26 as stated: every tick that finds the registry non-empty issues the
\* instanced draw, for as many instances as the registry has entries.
C26_EveryTickDraws ==
    [][Tick /\ activeOutlines # <<>> =>
        lastDraw'.ok /\ lastDraw'.instances = Len(activeOutlines)]_vars

\* The node or one of its ancestors carries data-react-scan-ignore.
OptedOut(domNode) ==
    \/ dom[domNode].ignore
    \/ \E i \in 1..Len(parentElement(domNode)) : dom[parentElement(domNode)[i]].ignore

renderCountThreshold == 2

\* C28: with renderCountThreshold above 0, a tick draws no instance for a
\* registry entry whose render counts sum to less than the threshold: the
\* draw has as many instances as there are entries at or above it.
C28_ThresholdSuppresses ==
    [][TickDrawn /\ activeOutlines # <<>> =>
        lastDraw'.instances =
            Cardinality({i \in 1..Len(activeOutlines) :
                            SumCounts(activeOutlines[i].outline.renders) >= renderCountThreshold})]_vars

\* C29: after a mergeOutlines call every region of the array it was handed is
\* as it was before the call, its render list included.
C29_MergeLeavesInputs == probe.done => probe.output.inputs = probe.input

\* C30: every onPaintStart call is eventually followed by the onPaintFinish
\* call of the same paint, made exactly once.
C30_StartThenFinish ==
    \A pid \in 1..MaxEvents :
        (Occurrences(hooks.onPaintStart, pid) > 0)
            ~> (Occurrences(hooks.onPaintFinish, pid) = 1)

\* C31: every flush that has started eventually has all its paint promises
\* resolved, which is when its continuation after Promise.all looks at the
\* pending queue again.
C31_FlushFinishesAwaiting ==
    \A n \in 1..MaxEvents :
        (Len(flushes) >= n) ~> (Len(flushes) >= n /\ Unresolved(n) = {})

\* The instance a rect gives in page coordinates.
InstanceOf(rect) == <<rect.left + scrollX, rect.top + scrollY, rect.width, rect.height>>

\* C32: the rect instance a tick writes for a registry entry is the page
\* rect of the rect the entry holds when the tick is over.
C32_BufferAgreesWithRegistry ==
    [][TickDrawn /\ activeOutlines # <<>> =>
        \A i \in 1..Len(activeOutlines) :
            LET pid == activeOutlines[i].resolve
            IN  pid \in Entries(activeOutlines') =>
                    lastDraw'.rectData[i] =
                        InstanceOf(activeOutlines'[EntryOf(activeOutlines', pid)].outline.rect)]_vars

\* C33: when a flushOutlinesGL call that found regions on the pending queue
\* returns, the queue is empty; a call that finds the queue empty returns at
\* once and is no step of the engine at all: nothing it could change changes.
C33_FlushEmptiesQueue ==
    /\ [](scheduledOutlines = <<>> => ~ENABLED flushOutlinesGL)
    /\ [][flushOutlinesGL => scheduledOutlines # <<>> /\ scheduledOutlines' = <<>>]_vars

\* A flush has returned and left the queue empty, its batch in the registry.
C33_Witness ==
    /\ flushes # <<>>
    /\ scheduledOutlines = <<>>
    /\ activeOutlines # <<>>
    /\ lastDraw.instances = 0

\* C34: a flushOutlinesGL call made by the drain step of an earlier flush puts
\* every render event of its batch into the registry, those of a region whose
\* key the earlier flush painted included.
C34_FollowUpAppliesAll ==
    [][FollowUp => RenderIds(scheduledOutlines) \subseteq RegistryIds(activeOutlines')]_vars

\* C35: animationFrameId is non-null exactly when one fadeOutOutlineGL
\* callback is pending with the host, and never more than one is pending; so
\* the registry is never non-empty with animationFrameId non-null and no
\* callback pending.
C35_HandleMatchesPending ==
    /\ rafPending <= 1
    /\ (animationFrameId # 0) <=> (rafPending = 1)
    /\ ~(activeOutlines # <<>> /\ animationFrameId # 0 /\ rafPending = 0)

\* C36: every registry entry has 0 <= frame <= totalFrames whenever a tick can
\* start, and the alpha a tick writes for an entry lies between 0 and the
\* alpha scalar of the entry's kind.
C36_AlphaInRange ==
    /\ [](\A i \in 1..Len(activeOutlines) :
            /\ activeOutlines[i].totalFrames > 0
            /\ 0 <= activeOutlines[i].frame
            /\ activeOutlines[i].frame <= activeOutlines[i].totalFrames)
    /\ [][TickDrawn /\ activeOutlines # <<>> =>
            \A i \in 1..Len(activeOutlines) :
                /\ 0 <= lastDraw'.colorData[i][4]
                /\ lastDraw'.colorData[i][4] <=
                      (IF HasUnstable(activeOutlines[i].outline.renders)
                       THEN AlphaUnit ELSE AlphaUnit \div 5)]_vars

\* An entry created by an unstable render was refreshed by a stable one, which
\* shortened its fade window, and has since been drawn up to its last frame.
C36_Witness ==
    /\ lastDraw.ok
    /\ \E i \in 1..Len(activeOutlines) :
          /\ HasUnstable(activeOutlines[i].outline.renders)
          /\ activeOutlines[i].totalFrames = StableFrames
          /\ activeOutlines[i].frame = StableFrames

\* C37: a paintOutlineGL call for any region on the pending queue leaves every
\* registry entry whose key differs from the region's as it is, and leaves the
\* update count of every other key as it is.
C37_PaintTouchesOwnKey ==
    \A n \in 1..Len(scheduledOutlines) :
        LET outline == scheduledOutlines[n]
            key == getOutlineKey(outline)
            st == paintOutlineGL(PaintState, outline)
        IN  /\ \A i \in 1..Len(activeOutlines) :
                  getOutlineKey(activeOutlines[i].outline) # key
                      => st.activeOutlines[i] = activeOutlines[i]
            /\ \A other \in DOMAIN componentUpdateMap \ {key} :
                  st.componentUpdateMap[other] = componentUpdateMap[other]
            /\ DOMAIN st.componentUpdateMap = DOMAIN componentUpdateMap \cup {key}

\* A second flush has painted a key while the registry held a half-faded
\* entry of another key, which is still half-faded and still has its count.
C37_Witness ==
    /\ Len(flushes) = 2
    /\ \E i, j \in 1..Len(activeOutlines) :
          /\ getOutlineKey(activeOutlines[i].outline) # getOutlineKey(activeOutlines[j].outline)
          /\ activeOutlines[i].frame > 0
          /\ activeOutlines[j].frame = 0
          /\ componentUpdateMap[getOutlineKey(activeOutlines[i].outline)] = 1
          /\ componentUpdateMap[getOutlineKey(activeOutlines[j].outline)] = 1

\* C38: the label text of every registry entry is the label of the render
\* events the entry has accumulated.
C38_LabelFollowsRenders ==
    \A i \in 1..Len(activeOutlines) :
        activeOutlines[i].text = getLabelText(activeOutlines[i].outline.renders)

\* C39: a tick whose rectangle draw is aborted leaves the registry exactly as
\* it found it: no entry is advanced, removed, moved or re-measured, and the
\* update counts stay; the next frame is requested all the same.
C39_AbortedTickKeepsRegistry ==
    [][TickAborted =>
        /\ activeOutlines' = activeOutlines
        /\ rectCache' = rectCache
        /\ componentUpdateMap' = componentUpdateMap
        /\ rafPending' = rafPending]_vars

\* Two entries were drawn once and the tick after that was aborted: both are
\* still there, one tick into their fade.
C39_Witness ==
    /\ ~lastDraw.ok
    /\ Len(activeOutlines) = 2
    /\ \A i \in 1..2 : activeOutlines[i].frame = 1

\* C40: mergeOutlines applied to the list it returned gives that list again,
\* and applied once more to the list it was first handed gives the result of
\* the first call again.
C40_MergeIdempotent ==
    (probe.done /\ "again" \in DOMAIN probe.output) =>
        /\ probe.output.onResult = probe.output.result
        /\ probe.output.again = probe.output.result
====
